---- MODULE Spec2Model ----
(***************************************************************************)
(* Model of the BS-Docs RAG pipeline (src/backend):                        *)
(*   3._chunking.py   langchain_chunking (RecursiveCharacterTextSplitter)  *)
(*   4._embedding.py  ingestion: initialize_chromadb, embeddings, add      *)
(*   5._retriever.py  retrieve_relevant_chunks and its module-level script *)
(*   6._query.py      rag_query_pipeline and its entry point               *)
(* Texts are sequences of characters, a character being its code point.    *)
(***************************************************************************)
EXTENDS Integers, Sequences, FiniteSets, TLC

(***************************************************************************)
(* 3._chunking.py : configuration                                          *)
(***************************************************************************)
CHUNK_SIZE == 1000

CHUNK_OVERLAP == 200

SOURCE_NAME == "single_corpus.txt"

\* separators=[...] handed to RecursiveCharacterTextSplitter, in priority order
\* "\n\n", "\n", ". ", "! ", "? ", " ", ""
separators ==
  << <<10, 10>>, <<10>>, <<46, 32>>, <<33, 32>>, <<63, 32>>, <<32>>, <<>> >>

\* keep_separator=True : _merge_splits joins with the empty separator
keep_separator == TRUE

\* the characters str.strip() removes: those str.isspace() holds of
Whitespace ==
  (9..13) \cup (28..32) \cup {133, 160, 5760} \cup (8192..8202)
    \cup {8232, 8233, 8239, 8287, 12288}

(***************************************************************************)
(* str helpers                                                             *)
(***************************************************************************)
\* text.strip()
strip(t) ==
  IF \A i \in 1..Len(t) : t[i] \in Whitespace THEN <<>>
  ELSE LET first == CHOOSE i \in 1..Len(t) :
                      t[i] \notin Whitespace /\ \A j \in 1..(i-1) : t[j] \in Whitespace
           last  == CHOOSE i \in 1..Len(t) :
                      t[i] \notin Whitespace /\ \A j \in (i+1)..Len(t) : t[j] \in Whitespace
       IN SubSeq(t, first, last)

\* "".join(docs[lo..hi]) ; the range is halved so that the evaluation depth
\* is logarithmic in the number of pieces
RECURSIVE join(_, _, _)
join(docs, lo, hi) ==
  IF lo > hi THEN <<>>
  ELSE IF lo = hi THEN docs[lo]
  ELSE LET mid == (lo + hi) \div 2
       IN join(docs, lo, mid) \o join(docs, mid + 1, hi)

\* the pattern re.escape(sep) matches text at position i
MatchAt(text, sep, i) ==
  /\ i + Len(sep) - 1 <= Len(text)
  /\ \A j \in 1..Len(sep) : text[i + j - 1] = sep[j]

\* re.search(re.escape(sep), text)
re_search(sep, text) == \E i \in 1..(Len(text) + 1) : MatchAt(text, sep, i)

\* the start positions of the leftmost non-overlapping matches re.split uses,
\* scanning positions lo..hi from the state st = [next, acc]
RECURSIVE re_matches(_, _, _, _, _)
re_matches(text, sep, lo, hi, st) ==
  IF lo > hi THEN st
  ELSE IF lo = hi
       THEN IF lo >= st.next /\ MatchAt(text, sep, lo)
            THEN [next |-> lo + Len(sep), acc |-> Append(st.acc, lo)]
            ELSE st
  ELSE LET mid == (lo + hi) \div 2
           left == re_matches(text, sep, lo, mid, st)
       IN IF left.next > 0   \* the left half is evaluated first
          THEN re_matches(text, sep, mid + 1, hi, left)
          ELSE left

(***************************************************************************)
(* langchain_text_splitters : _split_text_with_regex (keep_separator=True: *)
(* each separator is glued to the FRONT of the piece that follows it)      *)
(***************************************************************************)
_split_text_with_regex(text, sep) ==
  IF sep = <<>>
  THEN [i \in 1..Len(text) |-> <<text[i]>>]
  ELSE LET m == re_matches(text, sep, 1, Len(text), [next |-> 1, acc |-> <<>>]).acc
           k == Len(m)
           head == IF k = 0 THEN text ELSE SubSeq(text, 1, m[1] - 1)
           rest == [i \in 1..k |->
                      SubSeq(text, m[i], IF i < k THEN m[i + 1] - 1 ELSE Len(text))]
       IN (IF head = <<>> THEN <<>> ELSE <<head>>) \o rest

(***************************************************************************)
(* TextSplitter._join_docs : None is modelled by the empty text            *)
(***************************************************************************)
_join_docs(docs) == strip(join(docs, 1, Len(docs)))

\* len(separator) of the separator _merge_splits is called with
separator_len == IF keep_separator THEN 0 ELSE 1

\* the while loop of _merge_splits, run for at most hi-lo+1 rounds (one round
\* pops current_doc[0] if the loop condition holds); st = [cur, total]
RECURSIVE pop_loop(_, _, _, _, _, _)
pop_loop(st, _len, lo, hi, chunk_size, chunk_overlap) ==
  IF lo > hi THEN st
  ELSE IF lo = hi
       THEN IF \/ st.total > chunk_overlap
               \/ /\ st.total + _len
                       + (IF Len(st.cur) > 0 THEN separator_len ELSE 0) > chunk_size
                  /\ st.total > 0
            THEN [cur   |-> Tail(st.cur),
                  total |-> st.total - (Len(Head(st.cur))
                              + (IF Len(st.cur) > 1 THEN separator_len ELSE 0))]
            ELSE st
  ELSE LET mid == (lo + hi) \div 2
           left == pop_loop(st, _len, lo, mid, chunk_size, chunk_overlap)
       IN IF left.total >= 0   \* the left half is evaluated first
          THEN pop_loop(left, _len, mid + 1, hi, chunk_size, chunk_overlap)
          ELSE left

\* one round of "for d in splits" of _merge_splits; st = [docs, cur, total]
merge_step(st, d, chunk_size, chunk_overlap) ==
  LET _len == Len(d)
      closing ==
        /\ st.total + _len
             + (IF Len(st.cur) > 0 THEN separator_len ELSE 0) > chunk_size
        /\ Len(st.cur) > 0
      doc == _join_docs(st.cur)
      docs1 == IF closing /\ doc # <<>> THEN Append(st.docs, doc) ELSE st.docs
      popped == IF closing
                THEN pop_loop([cur |-> st.cur, total |-> st.total], _len,
                              1, Len(st.cur), chunk_size, chunk_overlap)
                ELSE [cur |-> st.cur, total |-> st.total]
      cur1 == Append(popped.cur, d)
  IN [docs  |-> docs1,
      cur   |-> cur1,
      total |-> popped.total + _len + (IF Len(cur1) > 1 THEN separator_len ELSE 0)]

RECURSIVE merge_loop(_, _, _, _, _, _)
merge_loop(splits, lo, hi, st, chunk_size, chunk_overlap) ==
  IF lo > hi THEN st
  ELSE IF lo = hi THEN merge_step(st, splits[lo], chunk_size, chunk_overlap)
  ELSE LET mid == (lo + hi) \div 2
           left == merge_loop(splits, lo, mid, st, chunk_size, chunk_overlap)
       IN IF left.total >= 0   \* the left half is evaluated first
          THEN merge_loop(splits, mid + 1, hi, left, chunk_size, chunk_overlap)
          ELSE left

\* TextSplitter._merge_splits
_merge_splits(splits, chunk_size, chunk_overlap) ==
  LET st == merge_loop(splits, 1, Len(splits),
                       [docs |-> <<>>, cur |-> <<>>, total |-> 0],
                       chunk_size, chunk_overlap)
      doc == _join_docs(st.cur)
  IN IF doc # <<>> THEN Append(st.docs, doc) ELSE st.docs

(***************************************************************************)
(* RecursiveCharacterTextSplitter._split_text                              *)
(***************************************************************************)
\* the index of the separator the first loop of _split_text stops at, or 0
pick_separator(text, seps) ==
  IF \E i \in 1..Len(seps) : seps[i] = <<>> \/ re_search(seps[i], text)
  THEN CHOOSE i \in 1..Len(seps) :
         /\ seps[i] = <<>> \/ re_search(seps[i], text)
         /\ \A j \in 1..(i-1) : ~(seps[j] = <<>> \/ re_search(seps[j], text))
  ELSE 0

RECURSIVE _split_text(_, _, _, _)
RECURSIVE split_loop(_, _, _, _, _, _, _)

\* "for s in splits" of _split_text; st = [final, good]
split_loop(splits, lo, hi, st, new_separators, chunk_size, chunk_overlap) ==
  IF lo > hi THEN st
  ELSE IF lo = hi
       THEN LET s == splits[lo]
            IN IF Len(s) < chunk_size
               THEN [final |-> st.final, good |-> Append(st.good, s)]
               ELSE LET merged == IF st.good # <<>>
                                  THEN _merge_splits(st.good, chunk_size, chunk_overlap)
                                  ELSE <<>>
                        other == IF new_separators = <<>>
                                 THEN <<s>>
                                 ELSE _split_text(s, new_separators,
                                                  chunk_size, chunk_overlap)
                    IN [final |-> st.final \o merged \o other, good |-> <<>>]
  ELSE LET mid == (lo + hi) \div 2
           left == split_loop(splits, lo, mid, st, new_separators,
                              chunk_size, chunk_overlap)
       IN IF Len(left.good) >= 0   \* the left half is evaluated first
          THEN split_loop(splits, mid + 1, hi, left, new_separators,
                          chunk_size, chunk_overlap)
          ELSE left

_split_text(text, seps, chunk_size, chunk_overlap) ==
  LET p == pick_separator(text, seps)
      separator == IF p = 0 THEN seps[Len(seps)] ELSE seps[p]
      new_separators == IF p = 0 \/ seps[p] = <<>>
                        THEN <<>>
                        ELSE SubSeq(seps, p + 1, Len(seps))
      splits == _split_text_with_regex(text, separator)
      st == split_loop(splits, 1, Len(splits), [final |-> <<>>, good |-> <<>>],
                       new_separators, chunk_size, chunk_overlap)
  IN IF st.good # <<>>
     THEN st.final \o _merge_splits(st.good, chunk_size, chunk_overlap)
     ELSE st.final

\* text_splitter.split_text(text)
split_text(text, chunk_size, chunk_overlap) ==
  _split_text(text, separators, chunk_size, chunk_overlap)

(***************************************************************************)
(* 3._chunking.py : langchain_chunking                                     *)
(***************************************************************************)
\* the records built by the enumerate(text_chunks, start=1) loop
format_chunks(text_chunks, start) ==
  [i \in 1..Len(text_chunks) |->
     [chunk_id   |-> start + i - 1,
      text       |-> strip(text_chunks[i]),
      source     |-> SOURCE_NAME,
      chunk_size |-> Len(strip(text_chunks[i]))]]

\* variant of langchain_chunking: enumerate without start=1
langchain_chunking_from_zero(text_) ==
  format_chunks(split_text(text_, CHUNK_SIZE, CHUNK_OVERLAP), 0)

\* variant of langchain_chunking: chunk_size is not handed to the splitter,
\* which then uses its default of 4000
langchain_chunking_default_size(text_) ==
  format_chunks(split_text(text_, 4000, CHUNK_OVERLAP), 1)

langchain_chunking(text_) ==
  format_chunks(split_text(text_, CHUNK_SIZE, CHUNK_OVERLAP), 1)

(***************************************************************************)
(* 4._embedding.py / 5._retriever.py / 6._query.py : configuration         *)
(***************************************************************************)
\* 4._embedding.py: CHROMA_DB_PATH = "Cleaned Data/chroma_db"
EMBEDDING_CHROMA_DB_PATH == "Cleaned Data/chroma_db"

\* 5._retriever.py: CHROMA_DB_PATH = os.path.join(BASE_DIR, "chroma_db"),
\* BASE_DIR being the directory of 5._retriever.py
RETRIEVER_CHROMA_DB_PATH == "backend/chroma_db"

COLLECTION_NAME == "bs_rag_collection"

TOP_K == 5

\* the store locations; each holds at most the collection COLLECTION_NAME
Paths == {EMBEDDING_CHROMA_DB_PATH, RETRIEVER_CHROMA_DB_PATH}

(***************************************************************************)
(* Bounds of the pipeline model                                            *)
(***************************************************************************)
\* chunks.json holds at most MaxChunks records
MaxChunks == 2

\* the chunk texts and the query strings the model draws from
DocTexts == {"quiz", "exam"}

Queries == {"when", "what"}

\* the vector ollama.embeddings returns for a prompt (one coordinate)
Embed(t) ==
  CASE t = "quiz" -> 0
    [] t = "exam" -> 2
    [] t = "when" -> 1
    [] t = "what" -> 3
    [] OTHER      -> 4

\* the distance the index reports between two vectors (squared l2)
Distance(a, b) == (a - b) * (a - b)

\* the files chunks.json can be: what json.dump(langchain_chunking(text))
\* writes, chunk_id 1..n and chunk_size = len(text)
ChunkFiles ==
  UNION { { [i \in 1..n |-> [chunk_id   |-> i,
                             text       |-> f[i],
                             source     |-> SOURCE_NAME,
                             chunk_size |-> Len(f[i])]] : f \in [1..n -> DocTexts] }
          : n \in 0..MaxChunks }

(***************************************************************************)
(* The vector index (chromadb), by its interface                           *)
(***************************************************************************)
NoCollection == [exists |-> FALSE, entries |-> <<>>]

EmptyCollection == [exists |-> TRUE, entries |-> <<>>]

\* the (id, embedding, document, metadata) tuples store_embeddings_in_chromadb
\* hands to collection.add
add_arguments(chunks_, embeddings_) ==
  [i \in 1..Len(chunks_) |->
     [id        |-> <<"chunk", chunks_[i].chunk_id>>,
      embedding |-> embeddings_[i],
      document  |-> chunks_[i].text,
      metadata  |-> [chunk_id   |-> chunks_[i].chunk_id,
                     source     |-> chunks_[i].source,
                     chunk_size |-> chunks_[i].chunk_size]]]

RECURSIVE collection_add(_, _)
\* collection.add: a record whose id is already stored is left out
collection_add(entries, new) ==
  IF new = <<>> THEN entries
  ELSE IF \E i \in 1..Len(entries) : entries[i].id = Head(new).id
       THEN collection_add(entries, Tail(new))
       ELSE collection_add(Append(entries, Head(new)), Tail(new))

\* collection.query(query_embeddings=[q], n_results=n): the responses the
\* index can give, the min(n, count) nearest entries in ascending distance
\* (entries at equal distance in either order)
collection_query(entries, q, n) ==
  LET m == Len(entries)
      r == IF n < m THEN n ELSE m
      d(i) == Distance(q, entries[i].embedding)
      orders == { o \in [1..r -> 1..m] :
                    /\ \A i, j \in 1..r : i # j => o[i] # o[j]
                    /\ \A i \in 1..(r-1) : d(o[i]) <= d(o[i+1])
                    /\ \A k \in 1..m :
                         (\A i \in 1..r : o[i] # k)
                           => \A i \in 1..r : d(o[i]) <= d(k) }
  IN { [ids       |-> [i \in 1..r |-> entries[o[i]].id],
        documents |-> [i \in 1..r |-> entries[o[i]].document],
        metadatas |-> [i \in 1..r |-> entries[o[i]].metadata],
        distances |-> [i \in 1..r |-> d(o[i])]] : o \in orders }

NoResults == [ids |-> <<>>, documents |-> <<>>, metadatas |-> <<>>, distances |-> <<>>]

(***************************************************************************)
(* 5._retriever.py : the formatting loop of retrieve_relevant_chunks       *)
(***************************************************************************)
\* variant of rank: the 0-based loop index itself
rank_zero_based(i) == i

\* "rank": i + 1, for the 0-based loop index i
rank(i) == i + 1

\* variant of chunk_data: the score turned into a similarity, 1 - distance
chunk_data_similarity(results_, i) ==
  [rank     |-> rank(i),
   score    |-> 1 - results_.distances[i + 1],
   metadata |-> results_.metadatas[i + 1],
   text     |-> results_.documents[i + 1]]

\* chunk_data of the loop round with 0-based index i
chunk_data(results_, i) ==
  [rank     |-> rank(i),
   score    |-> results_.distances[i + 1],
   metadata |-> results_.metadatas[i + 1],
   text     |-> results_.documents[i + 1]]

\* variant of ranked_chunks: the loop stops one round early
ranked_chunks_short(results_) ==
  [j \in 1..(Len(results_.documents) - 1) |-> chunk_data(results_, j - 1)]

\* for i in range(len(results["documents"][0])): ranked_chunks.append(chunk_data)
ranked_chunks(results_) ==
  [j \in 1..Len(results_.documents) |-> chunk_data(results_, j - 1)]

(***************************************************************************)
(* State                                                                   *)
(***************************************************************************)
VARIABLES
  store,          \* path -> the collection COLLECTION_NAME stored there
  prog,           \* the script that is running: "none", "ingest" (4._embedding),
                  \* "retriever" (5._retriever), "query" (6._query), "call"
                  \* (a direct call of retrieve_relevant_chunks)
  pc,             \* the statement the running script is at
  chunks_in,      \* main(): chunks
  embeddings,     \* generate_embeddings_with_ollama: embeddings
  written,        \* the chunk ids this run has put into the collection
  store_before,   \* the collection as the ingestion run found it
  last_ingest_ok, \* the latest ingestion run completed successfully
  query,          \* user_query / the query argument of retrieve_relevant_chunks
  top_k,          \* the top_k argument of retrieve_relevant_chunks
  results,        \* the response of collection.query
  ranked,         \* the value retrieve_relevant_chunks returned
  r_done,         \* retrieve_relevant_chunks has returned in this run
  calls,          \* the external calls of this run, with the error each raised
  outcome,        \* "running", "ok", "exit", or the error that left the script
  prompts,        \* how often this run asked "Enter your query"
  retrievals,     \* the queries retrieve_relevant_chunks was invoked with
  text,           \* 3._chunking.py: the text read from INPUT_FILE
  chunks,         \* 3._chunking.py: the value of langchain_chunking(text)
  cpc             \* 3._chunking.py: "idle", "read" or "done"

pipeline_vars ==
  << store, prog, pc, chunks_in, embeddings, written, store_before,
     last_ingest_ok, query, top_k, results, ranked, r_done, calls, outcome, prompts, retrievals >>

chunking_vars == << text, chunks, cpc >>

vars == << pipeline_vars, chunking_vars >>

ingest_locals == << chunks_in, embeddings, written, store_before >>

retrieve_locals == << query, top_k, results, ranked, r_done >>

script_locals == << prompts, retrievals >>

\* the call log with one more external call; err = "none" if it returned
Logged(op, err) == Append(calls, [op |-> op, err |-> err])

\* the stores the retriever can find at its path: none, or what an
\* ingestion of some chunks.json wrote
StoredCollections ==
  {NoCollection} \cup
  { [exists  |-> TRUE,
     entries |-> add_arguments(f, [i \in 1..Len(f) |-> Embed(f[i].text)])]
      : f \in ChunkFiles }

NoScript ==
  /\ prog = "none" /\ pc = "none"
  /\ chunks_in = <<>> /\ embeddings = <<>> /\ written = <<>>
  /\ store_before = NoCollection
  /\ query = "" /\ top_k = 0 /\ results = NoResults /\ ranked = <<>>
  /\ r_done = FALSE
  /\ calls = <<>> /\ outcome = "running"
  /\ prompts = 0 /\ retrievals = <<>>

InitPipeline ==
  /\ \E c \in StoredCollections :
       store = [p \in Paths |-> IF p = RETRIEVER_CHROMA_DB_PATH THEN c
                                ELSE NoCollection]
  /\ last_ingest_ok = FALSE
  /\ NoScript

Init ==
  /\ InitPipeline
  /\ text = <<>> /\ chunks = <<>> /\ cpc = "idle"

(***************************************************************************)
(* 4._embedding.py : main()                                                *)
(***************************************************************************)
\* python 4._embedding.py
StartIngest ==
  /\ prog = "none"
  /\ prog' = "ingest" /\ pc' = "load"
  /\ store_before' = store[EMBEDDING_CHROMA_DB_PATH]
  /\ last_ingest_ok' = FALSE
  /\ UNCHANGED << store, chunks_in, embeddings, written, retrieve_locals,
                  calls, outcome, prompts, retrievals,
                  chunking_vars >>

\* an exception leaves main() (the except clause re-raises it)
Raise(op, err) ==
  /\ calls' = Logged(op, err)
  /\ outcome' = err
  /\ pc' = "failed"

\* load_chunks(INPUT_FILE)
LoadChunks ==
  /\ prog = "ingest" /\ pc = "load"
  /\ \E f \in ChunkFiles : chunks_in' = f
  /\ calls' = Logged("load_chunks", "none")
  /\ pc' = "client"
  /\ UNCHANGED << store, prog, embeddings, written, store_before,
                  last_ingest_ok, retrieve_locals, outcome,
                  prompts, retrievals, chunking_vars >>

LoadChunksFails ==
  /\ prog = "ingest" /\ pc = "load"
  /\ Raise("load_chunks", "FileNotFoundError")
  /\ UNCHANGED << store, prog, ingest_locals, last_ingest_ok,
                  retrieve_locals, prompts, retrievals,
                  chunking_vars >>

\* initialize_chromadb: os.makedirs(db_path) and Client(Settings(...)) return
CreateClient ==
  /\ prog = "ingest" /\ pc = "client"
  /\ pc' = "delete"
  /\ UNCHANGED << store, prog, ingest_locals, last_ingest_ok, retrieve_locals,
                  calls, outcome, prompts, retrievals, chunking_vars >>

\* initialize_chromadb: os.makedirs or Client(Settings(...)) raises, before
\* any call on a collection; main() re-raises
CreateClientFails ==
  /\ prog = "ingest" /\ pc = "client"
  /\ outcome' = "RuntimeError"
  /\ pc' = "failed"
  /\ UNCHANGED << store, prog, ingest_locals, last_ingest_ok, retrieve_locals,
                  calls, prompts, retrievals, chunking_vars >>

\* initialize_chromadb: client.delete_collection(name) returns
DeleteCollection ==
  /\ prog = "ingest" /\ pc = "delete"
  /\ store[EMBEDDING_CHROMA_DB_PATH].exists
  /\ store' = [store EXCEPT ![EMBEDDING_CHROMA_DB_PATH] = NoCollection]
  /\ calls' = Logged("delete_collection", "none")
  /\ pc' = "create"
  /\ UNCHANGED << prog, ingest_locals, last_ingest_ok, retrieve_locals,
                  outcome, prompts, retrievals,
                  chunking_vars >>

\* initialize_chromadb: delete_collection raises because there is no such
\* collection; "except: pass" drops the error
DeleteCollectionMissing ==
  /\ prog = "ingest" /\ pc = "delete"
  /\ ~store[EMBEDDING_CHROMA_DB_PATH].exists
  /\ calls' = Logged("delete_collection", "CollectionNotFound")
  /\ pc' = "create"
  /\ UNCHANGED << store, prog, ingest_locals, last_ingest_ok,
                  retrieve_locals, outcome, prompts, retrievals, chunking_vars >>

\* initialize_chromadb: delete_collection raises for another reason and
\* deletes nothing; "except: pass" drops the error
DeleteCollectionFails ==
  /\ prog = "ingest" /\ pc = "delete"
  /\ calls' = Logged("delete_collection", "IndexError")
  /\ pc' = "create"
  /\ UNCHANGED << store, prog, ingest_locals, last_ingest_ok,
                  retrieve_locals, outcome, prompts, retrievals, chunking_vars >>

\* initialize_chromadb: client.create_collection(name) returns
CreateCollection ==
  /\ prog = "ingest" /\ pc = "create"
  /\ ~store[EMBEDDING_CHROMA_DB_PATH].exists
  /\ store' = [store EXCEPT ![EMBEDDING_CHROMA_DB_PATH] = EmptyCollection]
  /\ calls' = Logged("create_collection", "none")
  /\ pc' = "embed"
  /\ UNCHANGED << prog, ingest_locals, last_ingest_ok, retrieve_locals,
                  outcome, prompts, retrievals,
                  chunking_vars >>

\* variant of CreateCollectionExists: get_or_create_collection, which hands
\* back the collection that is still there
CreateCollectionExistsGet ==
  /\ prog = "ingest" /\ pc = "create"
  /\ store[EMBEDDING_CHROMA_DB_PATH].exists
  /\ calls' = Logged("create_collection", "none")
  /\ pc' = "embed"
  /\ UNCHANGED << store, prog, ingest_locals, last_ingest_ok,
                  retrieve_locals, outcome, prompts, retrievals, chunking_vars >>

\* initialize_chromadb: create_collection raises because the collection is
\* still there (the delete before it failed); the error is re-raised
CreateCollectionExists ==
  /\ prog = "ingest" /\ pc = "create"
  /\ store[EMBEDDING_CHROMA_DB_PATH].exists
  /\ Raise("create_collection", "UniqueConstraintError")
  /\ UNCHANGED << store, prog, ingest_locals, last_ingest_ok,
                  retrieve_locals, prompts, retrievals,
                  chunking_vars >>

\* initialize_chromadb: create_collection raises for another reason
CreateCollectionFails ==
  /\ prog = "ingest" /\ pc = "create"
  /\ Raise("create_collection", "IndexError")
  /\ UNCHANGED << store, prog, ingest_locals, last_ingest_ok,
                  retrieve_locals, prompts, retrievals,
                  chunking_vars >>

\* generate_embeddings_with_ollama: one round of the loop, the call returns
EmbedChunk ==
  /\ prog = "ingest" /\ pc = "embed"
  /\ Len(embeddings) < Len(chunks_in)
  /\ embeddings' = Append(embeddings, Embed(chunks_in[Len(embeddings) + 1].text))
  /\ calls' = Logged("embeddings", "none")
  /\ UNCHANGED << store, prog, pc, chunks_in, written, store_before,
                  last_ingest_ok, retrieve_locals, outcome,
                  prompts, retrievals, chunking_vars >>

\* generate_embeddings_with_ollama: ollama.embeddings raises; re-raised
EmbedChunkFails ==
  /\ prog = "ingest" /\ pc = "embed"
  /\ Len(embeddings) < Len(chunks_in)
  /\ Raise("embeddings", "EmbeddingUnavailable")
  /\ UNCHANGED << store, prog, ingest_locals, last_ingest_ok,
                  retrieve_locals, prompts, retrievals,
                  chunking_vars >>

\* store_embeddings_in_chromadb: the one collection.add call returns
StoreEmbeddings ==
  /\ prog = "ingest" /\ pc = "embed"
  /\ Len(embeddings) = Len(chunks_in)
  /\ store' = [store EXCEPT ![EMBEDDING_CHROMA_DB_PATH].entries =
                 collection_add(@, add_arguments(chunks_in, embeddings))]
  /\ written' = [i \in 1..Len(chunks_in) |-> chunks_in[i].chunk_id]
  /\ calls' = Logged("add", "none")
  /\ pc' = "verify"
  /\ UNCHANGED << prog, chunks_in, embeddings, store_before,
                  last_ingest_ok, retrieve_locals, outcome,
                  prompts, retrievals, chunking_vars >>

\* variant of StoreEmbeddingsFails: the chunks are added one call each, and
\* the call for the last chunk raises
StoreEmbeddingsFailsPartial ==
  /\ prog = "ingest" /\ pc = "embed"
  /\ Len(embeddings) = Len(chunks_in)
  /\ store' = [store EXCEPT ![EMBEDDING_CHROMA_DB_PATH].entries =
                 collection_add(@, SubSeq(add_arguments(chunks_in, embeddings),
                                          1, Len(chunks_in) - 1))]
  /\ written' = [i \in 1..(Len(chunks_in) - 1) |-> chunks_in[i].chunk_id]
  /\ Raise("add", "IndexWriteFailure")
  /\ UNCHANGED << prog, chunks_in, embeddings, store_before,
                  last_ingest_ok, retrieve_locals, prompts,
                  retrievals, chunking_vars >>

\* variant of StoreEmbeddingsFails: the except clause prints the error and
\* does not re-raise it
StoreEmbeddingsFailsSwallowed ==
  /\ prog = "ingest" /\ pc = "embed"
  /\ Len(embeddings) = Len(chunks_in)
  /\ calls' = Logged("add", "IndexWriteFailure")
  /\ pc' = "verify"
  /\ UNCHANGED << store, prog, ingest_locals, last_ingest_ok,
                  retrieve_locals, outcome, prompts, retrievals, chunking_vars >>

\* store_embeddings_in_chromadb: collection.add raises and stores nothing;
\* the error is re-raised
StoreEmbeddingsFails ==
  /\ prog = "ingest" /\ pc = "embed"
  /\ Len(embeddings) = Len(chunks_in)
  /\ Raise("add", "IndexWriteFailure")
  /\ UNCHANGED << store, prog, ingest_locals, last_ingest_ok,
                  retrieve_locals, prompts, retrievals,
                  chunking_vars >>

\* verify_storage: collection.count() and collection.peek(limit=3) return
VerifyStorage ==
  /\ prog = "ingest" /\ pc = "verify"
  /\ calls' = calls \o << [op |-> "count", err |-> "none"],
                          [op |-> "peek", err |-> "none"] >>
  /\ pc' = "test_query"
  /\ UNCHANGED << store, prog, ingest_locals, last_ingest_ok,
                  retrieve_locals, outcome, prompts, retrievals, chunking_vars >>

\* verify_storage: collection.count() raises, or collection.peek after it
VerifyStorageFails ==
  /\ prog = "ingest" /\ pc = "verify"
  /\ \/ Raise("count", "IndexError")
     \/ /\ calls' = calls \o << [op |-> "count", err |-> "none"],
                                [op |-> "peek", err |-> "IndexError"] >>
        /\ outcome' = "IndexError"
        /\ pc' = "failed"
  /\ UNCHANGED << store, prog, ingest_locals, last_ingest_ok,
                  retrieve_locals, prompts, retrievals,
                  chunking_vars >>

\* test_query: the embedding and the query return; main() completes
TestQuery ==
  /\ prog = "ingest" /\ pc = "test_query"
  /\ calls' = calls \o << [op |-> "embeddings", err |-> "none"],
                          [op |-> "query", err |-> "none"] >>
  /\ outcome' = "ok"
  /\ pc' = "done"
  /\ last_ingest_ok' = TRUE
  /\ UNCHANGED << store, prog, ingest_locals, retrieve_locals,
                  prompts, retrievals, chunking_vars >>

\* test_query: ollama.embeddings raises, or collection.query after it
TestQueryFails ==
  /\ prog = "ingest" /\ pc = "test_query"
  /\ \/ Raise("embeddings", "EmbeddingUnavailable")
     \/ /\ calls' = calls \o << [op |-> "embeddings", err |-> "none"],
                                [op |-> "query", err |-> "IndexError"] >>
        /\ outcome' = "IndexError"
        /\ pc' = "failed"
  /\ UNCHANGED << store, prog, ingest_locals, last_ingest_ok,
                  retrieve_locals, prompts, retrievals,
                  chunking_vars >>

(***************************************************************************)
(* 5._retriever.py : retrieve_relevant_chunks(query, top_k)                *)
(***************************************************************************)
\* the call enters the function
Invoke(q, k) ==
  /\ query' = q /\ top_k' = k
  /\ results' = NoResults /\ ranked' = <<>> /\ r_done' = FALSE
  /\ retrievals' = Append(retrievals, q)
  /\ pc' = "connect"

\* a caller that has loaded the module calls retrieve_relevant_chunks(q, k)
StartCall ==
  /\ prog = "none"
  /\ prog' = "call"
  /\ \E q \in Queries, k \in 1..TOP_K : Invoke(q, k)
  /\ UNCHANGED << store, ingest_locals, last_ingest_ok, calls, outcome, prompts, chunking_vars >>

\* chromadb.PersistentClient(path=CHROMA_DB_PATH, ...) returns
ConnectClient ==
  /\ pc = "connect"
  /\ pc' = "get_collection"
  /\ UNCHANGED << store, prog, ingest_locals, last_ingest_ok, retrieve_locals,
                  script_locals, calls, outcome, chunking_vars >>

\* chromadb.PersistentClient raises, before any call on a collection
ConnectClientFails ==
  /\ pc = "connect"
  /\ outcome' = "RuntimeError"
  /\ pc' = "failed"
  /\ UNCHANGED << store, prog, ingest_locals, last_ingest_ok, retrieve_locals,
                  script_locals, calls, chunking_vars >>

\* client.get_collection(name=COLLECTION_NAME) returns
GetCollection ==
  /\ pc = "get_collection"
  /\ store[RETRIEVER_CHROMA_DB_PATH].exists
  /\ calls' = Logged("get_collection", "none")
  /\ pc' = "embed_query"
  /\ UNCHANGED << store, prog, ingest_locals, last_ingest_ok, retrieve_locals,
                  script_locals, outcome, chunking_vars >>

\* client.get_collection raises: no collection of that name at the path
GetCollectionMissing ==
  /\ pc = "get_collection"
  /\ ~store[RETRIEVER_CHROMA_DB_PATH].exists
  /\ Raise("get_collection", "CollectionNotFound")
  /\ UNCHANGED << store, prog, ingest_locals, last_ingest_ok, retrieve_locals,
                  script_locals, chunking_vars >>

\* get_ollama_embedding(query) returns
EmbedQuery ==
  /\ pc = "embed_query"
  /\ calls' = Logged("embeddings", "none")
  /\ pc' = "query"
  /\ UNCHANGED << store, prog, ingest_locals, last_ingest_ok, retrieve_locals,
                  script_locals, outcome, chunking_vars >>

\* get_ollama_embedding(query) raises
EmbedQueryFails ==
  /\ pc = "embed_query"
  /\ Raise("embeddings", "EmbeddingUnavailable")
  /\ UNCHANGED << store, prog, ingest_locals, last_ingest_ok, retrieve_locals,
                  script_locals, chunking_vars >>

\* collection.query returns; the loop formats the response and the function
\* returns ranked_chunks
QueryIndex ==
  /\ pc = "query"
  /\ \E resp \in collection_query(store[RETRIEVER_CHROMA_DB_PATH].entries,
                                  Embed(query), top_k) :
       /\ results' = resp
       /\ ranked' = ranked_chunks(resp)
  /\ r_done' = TRUE
  /\ calls' = Logged("query", "none")
  /\ outcome' = "ok"
  /\ pc' = "done"
  /\ UNCHANGED << store, prog, ingest_locals, last_ingest_ok, query, top_k,
                  prompts, retrievals, chunking_vars >>

\* collection.query raises
QueryIndexFails ==
  /\ pc = "query"
  /\ Raise("query", "IndexError")
  /\ UNCHANGED << store, prog, ingest_locals, last_ingest_ok, retrieve_locals,
                  script_locals, chunking_vars >>

(***************************************************************************)
(* 5._retriever.py : the statements at module level (lines 72-91)          *)
(***************************************************************************)
\* python 5._retriever.py
StartRetriever ==
  /\ prog = "none"
  /\ prog' = "retriever" /\ pc' = "input"
  /\ UNCHANGED << store, ingest_locals, last_ingest_ok, retrieve_locals,
                  calls, outcome, prompts, retrievals,
                  chunking_vars >>

\* user_query = input(...).strip(); an empty query exits, any other is
\* retrieved with top_k=5
ModuleInput ==
  /\ pc = "input"
  /\ prompts' = prompts + 1
  /\ \E q \in Queries \cup {""} :
       IF q = ""
       THEN /\ outcome' = "exit" /\ pc' = "done"
            /\ UNCHANGED << retrieve_locals, retrievals >>
       ELSE /\ Invoke(q, 5)
            /\ outcome' = outcome
  /\ UNCHANGED << store, prog, ingest_locals, last_ingest_ok,
                  calls, chunking_vars >>

(***************************************************************************)
(* 6._query.py                                                             *)
(***************************************************************************)
\* python 6._query.py: line 10, __import__("5._retriever"), looks for a
\* package named 5 with a submodule _retriever; there is none, the import
\* raises and the script ends there
RunQuery ==
  /\ prog = "none"
  /\ prog' = "query"
  /\ outcome' = "ModuleNotFoundError"
  /\ pc' = "failed"
  /\ UNCHANGED << store, ingest_locals, last_ingest_ok, retrieve_locals,
                  calls, prompts, retrievals, chunking_vars >>

\* the script has ended (completed, exit() or an uncaught exception); the
\* stores stay as they are
Exit ==
  /\ pc \in {"done", "failed"}
  /\ prog' = "none" /\ pc' = "none"
  /\ chunks_in' = <<>> /\ embeddings' = <<>> /\ written' = <<>>
  /\ store_before' = NoCollection
  /\ query' = "" /\ top_k' = 0 /\ results' = NoResults /\ ranked' = <<>>
  /\ r_done' = FALSE
  /\ calls' = <<>> /\ outcome' = "running"
  /\ prompts' = 0 /\ retrievals' = <<>>
  /\ UNCHANGED << store, last_ingest_ok, chunking_vars >>

Next ==
  \/ StartIngest \/ LoadChunks \/ LoadChunksFails
  \/ CreateClient \/ CreateClientFails
  \/ DeleteCollection \/ DeleteCollectionMissing \/ DeleteCollectionFails
  \/ CreateCollection \/ CreateCollectionExists \/ CreateCollectionFails
  \/ EmbedChunk \/ EmbedChunkFails
  \/ StoreEmbeddings \/ StoreEmbeddingsFails
  \/ VerifyStorage \/ VerifyStorageFails
  \/ TestQuery \/ TestQueryFails
  \/ StartCall \/ ConnectClient \/ ConnectClientFails
  \/ GetCollection \/ GetCollectionMissing
  \/ EmbedQuery \/ EmbedQueryFails \/ QueryIndex \/ QueryIndexFails
  \/ StartRetriever \/ ModuleInput
  \/ RunQuery
  \/ Exit

Spec == Init /\ [][Next]_vars

(***************************************************************************)
(* 3._chunking.py : the script                                             *)
(***************************************************************************)
\* the texts INPUT_FILE can hold: up to MaxBlocks runs, each a unit repeated
MaxBlocks == 2

\* "a", " ", "\n", "a. "
BlockUnits == { <<97>>, <<32>>, <<10>>, <<97, 46, 32>> }

BlockCounts == {1, CHUNK_SIZE \div 2 + 100, CHUNK_SIZE + 1}

Block(u, n) == [i \in 1..(n * Len(u)) |-> u[((i - 1) % Len(u)) + 1]]

Blocks == { Block(u, n) : u \in BlockUnits, n \in BlockCounts }

InputTexts ==
  UNION { { join(f, 1, k) : f \in [1..k -> Blocks] } : k \in 0..MaxBlocks }

InitChunking ==
  /\ store = [p \in Paths |-> NoCollection]
  /\ last_ingest_ok = FALSE
  /\ NoScript
  /\ text \in InputTexts /\ chunks = <<>> /\ cpc = "read"

\* chunks = langchain_chunking(text); json.dump(chunks, OUTPUT_FILE)
Chunking ==
  /\ cpc = "read"
  /\ chunks' = langchain_chunking(text)
  /\ cpc' = "done"
  /\ UNCHANGED << text, pipeline_vars >>

NextChunking == Chunking

SpecChunking == InitChunking /\ [][NextChunking]_vars

(***************************************************************************)
(* Properties                                                              *)
(***************************************************************************)
Stored == store[RETRIEVER_CHROMA_DB_PATH].entries

Indexed == store[EMBEDDING_CHROMA_DB_PATH]

\* the call log holds a call of op that raised
Raised(op) == \E i \in 1..Len(calls) : calls[i].op = op /\ calls[i].err # "none"

Returned(op) == \E i \in 1..Len(calls) : calls[i].op = op /\ calls[i].err = "none"

\* C1: whenever retrieve_relevant_chunks has returned N results, their rank
\* fields are 1, 2, ..., N in sequence order and their scores never decrease
\* along the sequence.
C1_RankMonotonicity ==
  r_done =>
    /\ \A i \in 1..Len(ranked) : ranked[i].rank = i
    /\ \A i \in 1..(Len(ranked) - 1) : ranked[i].score <= ranked[i + 1].score

\* a call has returned two results of different distance
C1_Witness ==
  r_done /\ Len(ranked) = 2 /\ ranked[1].score < ranked[2].score

\* C2: the sequence retrieve_relevant_chunks returns is as long as the
\* response of the index, and its i-th text, metadata and score are the i-th
\* document, metadata and distance of that response.
C2_ThinLayer ==
  r_done =>
    /\ Len(ranked) = Len(results.documents)
    /\ \A i \in 1..Len(ranked) :
         /\ ranked[i].text = results.documents[i]
         /\ ranked[i].metadata = results.metadatas[i]
         /\ ranked[i].score = results.distances[i]

\* a call has returned two results of the same text and a distance above 1
C2_Witness ==
  /\ r_done /\ Len(ranked) = 2
  /\ ranked[1].text = ranked[2].text
  /\ ranked[1].score > 1

\* C3: when the collection holds m chunks and top_k > m, the call returns
\* exactly m results with ranks 1..m and no error is raised; with m = 0 the
\* result is the empty sequence.
C3_ShortCollection ==
  (r_done /\ top_k > Len(Stored)) =>
    /\ Len(ranked) = Len(Stored)
    /\ \A i \in 1..Len(Stored) : ranked[i].rank = i
    /\ outcome \notin {"IndexError", "CollectionNotFound", "EmbeddingUnavailable",
                      "RuntimeError"}
    /\ (Len(Stored) = 0 => ranked = <<>>)

\* a call with top_k = 5 has returned from a collection of 2 chunks
C3_Witness ==
  r_done /\ top_k = TOP_K /\ Len(Stored) = 2 /\ Len(ranked) = 2

\* C4: once an ingestion run has completed, the collection holds exactly
\* one entry per chunk of that run, with id chunk_<chunk_id> and that
\* chunk's text, and nothing an earlier run wrote.
C4_FullRebuild ==
  (prog = "ingest" /\ outcome = "ok") =>
    /\ Indexed.exists
    /\ Len(Indexed.entries) = Len(chunks_in)
    /\ \A i \in 1..Len(chunks_in) :
         /\ Indexed.entries[i].id = <<"chunk", chunks_in[i].chunk_id>>
         /\ Indexed.entries[i].document = chunks_in[i].text

\* a run has completed over a collection an earlier run had filled with
\* other entries
C4_Witness ==
  /\ prog = "ingest" /\ outcome = "ok"
  /\ Len(store_before.entries) = 2
  /\ Len(Indexed.entries) = 1
  /\ Indexed.entries[1].document # store_before.entries[1].document

\* C5: in every state of an ingestion run, a failed embedding or add call
\* has ended the run with its error, add is called with an embedding for
\* every chunk, and the collection the run created holds none of the run's
\* chunks or all of them.
C5_AllOrNothing ==
  prog = "ingest" =>
    /\ (Raised("embeddings") \/ Raised("add")) =>
         (pc = "failed" /\ outcome = calls[Len(calls)].err)
    /\ (Raised("add") \/ Returned("add")) =>
         /\ Len(embeddings) = Len(chunks_in)
         /\ \A i \in 1..Len(chunks_in) : embeddings[i] = Embed(chunks_in[i].text)
    /\ written \in {<<>>, [i \in 1..Len(chunks_in) |-> chunks_in[i].chunk_id]}
    /\ Returned("create_collection") =>
         \/ Indexed.entries = <<>>
         \/ /\ Len(embeddings) = Len(chunks_in)
            /\ Indexed.entries = add_arguments(chunks_in, embeddings)

\* the add call of a run of two chunks has failed
C5_Witness ==
  /\ prog = "ingest" /\ pc = "failed" /\ outcome = "IndexWriteFailure"
  /\ Len(chunks_in) = 2 /\ Indexed.entries = <<>>

\* C6 as stated: every error an external call raises is the last call of
\* the run and is the error the run ends with.
C6_AllErrorsSurface ==
  \A i \in 1..Len(calls) :
    calls[i].err # "none" => (i = Len(calls) /\ outcome = calls[i].err)

\* C6: every error raised by an external call other than the collection
\* delete is the last call of the run and is the error the run ends with;
\* an error of the collection delete is dropped and the run goes on to
\* create the collection.
C6_ErrorsSurfaceExceptDelete ==
  \A i \in 1..Len(calls) :
    calls[i].err # "none" =>
      IF calls[i].op = "delete_collection"
      THEN \/ i = Len(calls) /\ pc = "create" /\ outcome = "running"
           \/ i < Len(calls) /\ calls[i + 1].op = "create_collection"
      ELSE i = Len(calls) /\ pc = "failed" /\ outcome = calls[i].err

\* a run whose delete raised has gone on and ended with the error of a
\* later embedding call
C6_Witness ==
  /\ prog = "ingest" /\ outcome = "EmbeddingUnavailable"
  /\ Raised("delete_collection")
  /\ calls[Len(calls)].err = "EmbeddingUnavailable"

\* C7: retrieve fails with CollectionNotFound when the collection does not
\* exist, and once the latest ingestion run has completed a retrieve call
\* does not fail with CollectionNotFound.
C7_IngestionRecovers ==
  /\ (Raised("get_collection") /\ ~store[RETRIEVER_CHROMA_DB_PATH].exists)
       => outcome = "CollectionNotFound"
  /\ last_ingest_ok => outcome # "CollectionNotFound"

\* C10: a run of 6._query.py that has ended has asked for the query exactly
\* once and, unless the query was empty, has called retrieve_relevant_chunks
\* exactly once, for that query; loading 5._retriever does not end the run.
C10_OnePromptOneRetrieval ==
  (prog = "query" /\ pc \in {"done", "failed"}) =>
    /\ prompts = 1
    /\ outcome # "exit" => retrievals = <<query>>
    /\ outcome # "ModuleNotFoundError"

\* C8: the records of langchain_chunking have chunk_id 1..N in order, a
\* text that is not empty and has no whitespace at either end, and
\* chunk_size = len(text).
C8_ChunkRecords ==
  cpc = "done" =>
    \A i \in 1..Len(chunks) :
      /\ chunks[i].chunk_id = i
      /\ chunks[i].text # <<>>
      /\ chunks[i].text[1] \notin Whitespace
      /\ chunks[i].text[Len(chunks[i].text)] \notin Whitespace
      /\ chunks[i].chunk_size = Len(chunks[i].text)

\* a text that starts with more than CHUNK_SIZE blanks, so that a packed
\* piece trims to empty, has been chunked into two records or more
C8_Witness ==
  /\ cpc = "done" /\ Len(chunks) >= 2
  /\ Len(text) > CHUNK_SIZE + 1
  /\ \A j \in 1..(CHUNK_SIZE + 1) : text[j] = 32

\* the units the last separator, "", splits a text into
AtomicUnit(t) == Len(t) <= 1

\* C9: every chunk that is not a single atomic unit longer than the budget
\* has chunk_size <= CHUNK_SIZE.
C9_SizeBound ==
  cpc = "done" =>
    \A i \in 1..Len(chunks) :
      \/ chunks[i].chunk_size <= CHUNK_SIZE
      \/ AtomicUnit(chunks[i].text) /\ Len(chunks[i].text) > CHUNK_SIZE

\* a text with no separator in it has been cut into two chunks or more, the
\* first of them of exactly CHUNK_SIZE characters
C9_Witness ==
  /\ cpc = "done" /\ Len(chunks) >= 2
  /\ chunks[1].chunk_size = CHUNK_SIZE
  /\ \A j \in 1..Len(text) : text[j] = 97

====
